---- MODULE Spec2Model ----
(***************************************************************************)
(* Model of PlayerClient.py: the MQTT player client of a multiplayer grid  *)
(* game.  Three threads of control are modelled: the main program (lines   *)
(* 113-166), the input loop user_input_control (lines 70-82) and the paho  *)
(* event loop client.loop_forever(), which calls on_message (lines 50-67)  *)
(* and through it process_game_state (lines 84-110).                       *)
(*                                                                         *)
(* Strings the code inspects character by character (operator tokens) are *)
(* sequences of one-character strings; topics are sequences of segments.   *)
(***************************************************************************)
EXTENDS Integers, Sequences, FiniteSets, TLC

VARIABLES
    pc,         \* main program: index of the next statement of Main
    mainAlive,  \* FALSE once an exception has ended the main thread
    subs,       \* topic filters passed to client.subscribe, in call order
    published,  \* client.publish calls, in call order: [by, topic, payload];
                \* by is "main" or the player of the input loop that called
    il,         \* input loop of each local player: "idle", "prompt", "done"
    typed,      \* the raw token input() returned last
    move,       \* local variable move of user_input_control
    console,    \* the lines user_input_control printed, in order
    nRead,      \* number of tokens each input loop has read so far
    el,         \* event loop: "idle", "running", "dead"
    nIn,        \* number of inbound messages delivered so far
    lastIn,     \* the last inbound message and what on_message did with it
    conn,       \* the connection: "none", "failed", "pending", "accepted",
                \* "refused", "lost"
    interrupted,\* a SIGINT (Ctrl-C) has reached the process
    snapshot,   \* projection harness: the GameState handed to process_game_state
    out,        \* projection harness: what process_game_state printed
    rendered,   \* projection harness: process_game_state has run
    renders     \* projection harness: the calls of process_game_state so far,
                \* in order: [snapshot, out]

vars == <<pc, mainAlive, subs, published, il, typed, move, console, nRead,
          el, nIn, lastIn, conn, interrupted, snapshot, out, rendered, renders>>

sessionVars == <<pc, mainAlive, subs, published, il, typed, move, console,
                 nRead, el, nIn, lastIn, conn, interrupted>>

projVars == <<snapshot, out, rendered, renders>>

(***************************************************************************)
(* Bounds of the model.                                                    *)
(***************************************************************************)
MaxCoord == 7    \* entity coordinates range over -MaxCoord..MaxCoord
MaxPos == 1      \* player coordinates range over 0..MaxPos
MaxTokens == 2   \* operator tokens read by the input loop
MaxInbound == 2  \* inbound messages delivered by the broker
MaxRenders == 3  \* game_state messages projected one after another

(***************************************************************************)
(* process_game_state: the 5x5 player-centred grid.                        *)
(***************************************************************************)
N == 5
center_x == 2
center_y == 2

\* A parsed JSON document as process_game_state sees it.  isObject: it is a
\* dict (state.get exists); hasX: the key is present.
Doc(isObject, hasPos, pos, hasCoins, coins, hasWalls, walls) ==
    [isObject |-> isObject, hasPos |-> hasPos, pos |-> pos,
     hasCoins |-> hasCoins, coins |-> coins,
     hasWalls |-> hasWalls, walls |-> walls]

GameState(pos, coins, walls) == Doc(TRUE, TRUE, pos, TRUE, coins, TRUE, walls)

EmptyGrid == [r \in 0..(N - 1) |-> [c \in 0..(N - 1) |-> " "]]

\* Python list indexing: i in [0,N) is itself, i in [-N,0) counts from the end,
\* anything else raises IndexError.
PyIndexOk(i) == i >= 0 - N /\ i < N

PyIndex(i) == IF i < 0 THEN i + N ELSE i

\* An exception inside the try block: nothing of the grid is printed.
Raised == [ok |-> FALSE, grid |-> EmptyGrid]

\* state.get(key, []) for the keys 'coins' and 'walls'
GetCoins(state) == IF state.hasCoins THEN state.coins ELSE <<>>

GetWalls(state) == IF state.hasWalls THEN state.walls ELSE <<>>

\* Lines 94-96, one iteration: unpack the coin, read currentPosition, assign.
PlaceCoin(grid, state, coin) ==
    IF Len(coin) # 2 THEN Raised
    ELSE IF ~state.hasPos THEN Raised
    ELSE IF Len(state.pos) < 2 THEN Raised
    ELSE LET r == coin[1] - state.pos[1] + center_x
             c == coin[2] - state.pos[2] + center_y
         IN IF PyIndexOk(r) /\ PyIndexOk(c)
            THEN [ok |-> TRUE,
                  grid |-> [grid EXCEPT ![PyIndex(r)][PyIndex(c)] = "C"]]
            ELSE Raised

\* A mutation of line 102: a wall is not written over a coin.
PlaceWall_KeepCoin(grid, state, wall) ==
    IF Len(wall) # 2 THEN Raised
    ELSE IF ~state.hasPos THEN Raised
    ELSE IF Len(state.pos) < 2 THEN Raised
    ELSE LET r == wall[1] - state.pos[1] + center_x
             c == wall[2] - state.pos[2] + center_y
         IN IF 0 <= r /\ r < N /\ 0 <= c /\ c < N /\ grid[r][c] # "C"
            THEN [ok |-> TRUE, grid |-> [grid EXCEPT ![r][c] = "W"]]
            ELSE [ok |-> TRUE, grid |-> grid]

\* Lines 99-102, one iteration: the bounds test short-circuits, so
\* currentPosition[1] is read only when the row is in range.
PlaceWall(grid, state, wall) ==
    IF Len(wall) # 2 THEN Raised
    ELSE IF ~state.hasPos THEN Raised
    ELSE IF Len(state.pos) < 1 THEN Raised
    ELSE LET r == wall[1] - state.pos[1] + center_x
         IN IF ~(0 <= r /\ r < N) THEN [ok |-> TRUE, grid |-> grid]
            ELSE IF Len(state.pos) < 2 THEN Raised
            ELSE LET c == wall[2] - state.pos[2] + center_y
                 IN IF 0 <= c /\ c < N
                    THEN [ok |-> TRUE, grid |-> [grid EXCEPT ![r][c] = "W"]]
                    ELSE [ok |-> TRUE, grid |-> grid]

RECURSIVE PlaceCoins(_, _, _)
PlaceCoins(grid, state, i) ==
    IF i > Len(GetCoins(state)) THEN [ok |-> TRUE, grid |-> grid]
    ELSE LET r == PlaceCoin(grid, state, GetCoins(state)[i])
         IN IF r.ok THEN PlaceCoins(r.grid, state, i + 1) ELSE Raised

RECURSIVE PlaceWalls(_, _, _)
PlaceWalls(grid, state, i) ==
    IF i > Len(GetWalls(state)) THEN [ok |-> TRUE, grid |-> grid]
    ELSE LET r == PlaceWall(grid, state, GetWalls(state)[i])
         IN IF r.ok THEN PlaceWalls(r.grid, state, i + 1) ELSE Raised

\* What process_game_state prints: the grid ("grid"), or the line
\* "Error processing game state: ..." ("error") when the try block raised.
process_game_state(state) ==
    LET g0 == [EmptyGrid EXCEPT ![center_x][center_y] = "P"]
        r1 == IF state.isObject THEN PlaceCoins(g0, state, 1) ELSE Raised
        r2 == IF r1.ok THEN PlaceWalls(r1.grid, state, 1) ELSE Raised
    IN IF r2.ok THEN [printed |-> "grid", grid |-> r2.grid]
       ELSE [printed |-> "error", grid |-> EmptyGrid]

NoOut == [printed |-> "none", grid |-> EmptyGrid]

(***************************************************************************)
(* Inputs of the projection harness.                                       *)
(***************************************************************************)
Coords(maxCoord) ==
    {<<x, y>> : x \in (0 - maxCoord)..maxCoord, y \in (0 - maxCoord)..maxCoord}

Positions(maxPos) == {<<k, k>> : k \in 0..maxPos}

\* Entity lists of length at most one.
EntityLists(maxCoord) == {<<>>} \cup {<<e>> : e \in Coords(maxCoord)}

ValidStates(maxCoord, maxPos) ==
    {GameState(p, cs, ws) : p \in Positions(maxPos),
                            cs \in EntityLists(maxCoord), ws \in EntityLists(maxCoord)}

\* The two scenarios of the specification's section 8.
ScenarioBasic == GameState(<<3, 3>>, << <<3, 4>> >>, << <<2, 3>> >>)

ScenarioOutOfView == GameState(<<0, 0>>, << <<10, 10>> >>, <<>>)

\* Documents that parse as JSON but are not of the GameState shape.
NoDoc == Doc(FALSE, FALSE, <<>>, FALSE, <<>>, FALSE, <<>>)

NoKeys == Doc(TRUE, FALSE, <<>>, FALSE, <<>>, FALSE, <<>>)

NoPosition == Doc(TRUE, FALSE, <<>>, TRUE, << <<1, 1>> >>, TRUE, <<>>)

MalformedStates ==
    { NoDoc, NoKeys, NoPosition,
      Doc(TRUE, FALSE, <<>>, TRUE, <<>>, TRUE, << <<1, 1>> >>),
      Doc(TRUE, FALSE, <<>>, TRUE, <<>>, TRUE, <<>>),
      Doc(TRUE, TRUE, <<1>>, TRUE, << <<1, 1>> >>, TRUE, <<>>),
      Doc(TRUE, TRUE, <<1>>, TRUE, <<>>, TRUE, << <<1, 1>> >>),
      Doc(TRUE, TRUE, <<1>>, TRUE, <<>>, TRUE, << <<9, 1>> >>),
      Doc(TRUE, TRUE, <<1, 1>>, TRUE, << <<1>> >>, TRUE, <<>>),
      Doc(TRUE, TRUE, <<1, 1>>, TRUE, <<>>, TRUE, << <<1, 1, 1>> >>),
      Doc(TRUE, TRUE, <<1, 1>>, FALSE, <<>>, FALSE, <<>>) }

Snapshots(maxCoord, maxPos) ==
    ValidStates(maxCoord, maxPos) \cup {ScenarioBasic, ScenarioOutOfView} \cup MalformedStates

AllPairs(list) == \A i \in 1..Len(list) : Len(list[i]) = 2

\* The GameState schema: an object with currentPosition a pair and coins and
\* walls lists of pairs.
ValidShape(s) ==
    /\ s.isObject /\ s.hasPos /\ s.hasCoins /\ s.hasWalls
    /\ Len(s.pos) = 2 /\ AllPairs(s.coins) /\ AllPairs(s.walls)

(***************************************************************************)
(* Strings, topics and payloads.                                           *)
(***************************************************************************)
LowerCase == <<"a", "b", "c", "d", "e", "f", "g", "h", "i", "j", "k", "l", "m",
               "n", "o", "p", "q", "r", "s", "t", "u", "v", "w", "x", "y", "z">>

UpperCase == <<"A", "B", "C", "D", "E", "F", "G", "H", "I", "J", "K", "L", "M",
               "N", "O", "P", "Q", "R", "S", "T", "U", "V", "W", "X", "Y", "Z">>

UpperChar(c) ==
    IF \E i \in 1..Len(LowerCase) : LowerCase[i] = c
    THEN UpperCase[CHOOSE i \in 1..Len(LowerCase) : LowerCase[i] = c]
    ELSE c

\* A mutation of str.upper(): the conversion is left out.
Upper_Missing(s) == s

\* str.upper() of line 73
Upper(s) == [i \in 1..Len(s) |-> UpperChar(s[i])]

UP == <<"U", "P">>
DOWN == <<"D", "O", "W", "N">>
LEFT == <<"L", "E", "F", "T">>
RIGHT == <<"R", "I", "G", "H", "T">>
STOP == <<"S", "T", "O", "P">>
START == <<"S", "T", "A", "R", "T">>

\* The list literal of line 74
BoardMoves == {UP, DOWN, LEFT, RIGHT}

\* What the operator may type at the prompt.
Tokens ==
    { UP, <<"u", "p">>, <<"d", "o", "w", "n">>, <<"L", "e", "f", "t">>,
      <<"r", "i", "g", "h", "t">>, STOP, <<"s", "t", "o", "P">>,
      <<>>, <<"u", "p", "p">>, <<" ", "u", "p">>, <<"j", "u", "m", "p">>, START }

lobby_name == "TestLobby"
player_1 == "Player1"
player_2 == "Player2"
player_3 == "Player3"

LocalPlayers == {player_1, player_2, player_3}

NoObj == [lobby_name |-> "", team_name |-> "", player_name |-> ""]

\* A text payload, and the payload json.dumps makes of a join request.
Text(s) == [fmt |-> "text", text |-> s, obj |-> NoObj]

JoinRequest(team, player) ==
    [fmt |-> "json", text |-> <<>>,
     obj |-> [lobby_name |-> lobby_name, team_name |-> team, player_name |-> player]]

NewGameTopic == <<"new_game">>
StartTopic(lobby) == <<"games", lobby, "start">>

\* A mutation of line 75: the player segment is missing from the move topic.
MoveTopic_NoPlayer(lobby, player) == <<"games", lobby, "move">>

MoveTopic(lobby, player) == <<"games", lobby, player, "move">>

\* A mutation of line 141: a multi-level wildcard instead of the single-level one.
StateFilter_MultiLevel == <<"games", lobby_name, "#">>

LobbyFilter == <<"games", lobby_name, "lobby">>
StateFilter == <<"games", lobby_name, "+", "game_state">>
ScoresFilter == <<"games", lobby_name, "scores">>

(***************************************************************************)
(* The main program, lines 128-166, statement by statement.                *)
(***************************************************************************)
Stmt(line, op, topic, payload) ==
    [line |-> line, op |-> op, topic |-> topic, payload |-> payload]

\* A mutation of the main program: the start signal is sent before the last join.
Main_StartBeforeLastJoin ==
    << Stmt(128, "connect", <<>>, Text(<<>>)),
       Stmt(140, "subscribe", LobbyFilter, Text(<<>>)),
       Stmt(141, "subscribe", StateFilter, Text(<<>>)),
       Stmt(142, "subscribe", ScoresFilter, Text(<<>>)),
       Stmt(144, "publish", NewGameTopic, JoinRequest("ATeam", player_1)),
       Stmt(148, "publish", NewGameTopic, JoinRequest("BTeam", player_2)),
       Stmt(156, "sleep", <<>>, Text(<<>>)),
       Stmt(157, "publish", StartTopic(lobby_name), Text(START)),
       Stmt(152, "publish", NewGameTopic, JoinRequest("BTeam", player_3)),
       Stmt(158, "publish", MoveTopic(lobby_name, player_1), Text(UP)),
       Stmt(159, "publish", MoveTopic(lobby_name, player_2), Text(DOWN)),
       Stmt(160, "publish", MoveTopic(lobby_name, player_3), Text(DOWN)),
       Stmt(161, "publish", StartTopic(lobby_name), Text(STOP)),
       Stmt(163, "thread", <<player_1>>, Text(<<>>)),
       Stmt(166, "loop_forever", <<>>, Text(<<>>)) >>

\* A mutation of the main program: the join requests are sent before the
\* subscriptions are registered.
Main_JoinBeforeSubscribe ==
    << Stmt(128, "connect", <<>>, Text(<<>>)),
       Stmt(144, "publish", NewGameTopic, JoinRequest("ATeam", player_1)),
       Stmt(148, "publish", NewGameTopic, JoinRequest("BTeam", player_2)),
       Stmt(152, "publish", NewGameTopic, JoinRequest("BTeam", player_3)),
       Stmt(140, "subscribe", LobbyFilter, Text(<<>>)),
       Stmt(141, "subscribe", StateFilter, Text(<<>>)),
       Stmt(142, "subscribe", ScoresFilter, Text(<<>>)),
       Stmt(156, "sleep", <<>>, Text(<<>>)),
       Stmt(157, "publish", StartTopic(lobby_name), Text(START)),
       Stmt(158, "publish", MoveTopic(lobby_name, player_1), Text(UP)),
       Stmt(159, "publish", MoveTopic(lobby_name, player_2), Text(DOWN)),
       Stmt(160, "publish", MoveTopic(lobby_name, player_3), Text(DOWN)),
       Stmt(161, "publish", StartTopic(lobby_name), Text(STOP)),
       Stmt(163, "thread", <<player_1>>, Text(<<>>)),
       Stmt(166, "loop_forever", <<>>, Text(<<>>)) >>

Main ==
    << Stmt(128, "connect", <<>>, Text(<<>>)),
       Stmt(140, "subscribe", LobbyFilter, Text(<<>>)),
       Stmt(141, "subscribe", StateFilter, Text(<<>>)),
       Stmt(142, "subscribe", ScoresFilter, Text(<<>>)),
       Stmt(144, "publish", NewGameTopic, JoinRequest("ATeam", player_1)),
       Stmt(148, "publish", NewGameTopic, JoinRequest("BTeam", player_2)),
       Stmt(152, "publish", NewGameTopic, JoinRequest("BTeam", player_3)),
       Stmt(156, "sleep", <<>>, Text(<<>>)),
       Stmt(157, "publish", StartTopic(lobby_name), Text(START)),
       Stmt(158, "publish", MoveTopic(lobby_name, player_1), Text(UP)),
       Stmt(159, "publish", MoveTopic(lobby_name, player_2), Text(DOWN)),
       Stmt(160, "publish", MoveTopic(lobby_name, player_3), Text(DOWN)),
       Stmt(161, "publish", StartTopic(lobby_name), Text(STOP)),
       Stmt(163, "thread", <<player_1>>, Text(<<>>)),
       Stmt(166, "loop_forever", <<>>, Text(<<>>)) >>

AtStmt(op) == mainAlive /\ pc <= Len(Main) /\ Main[pc].op = op

Publish(by, topic, payload) ==
    published' = Append(published, [by |-> by, topic |-> topic, payload |-> payload])

\* client.connect (line 128) blocks until the TCP/TLS connection stands and
\* the CONNECT packet is queued, or raises; nothing catches the exception, so
\* the program ends there with a traceback.  It does not wait for the broker's
\* connect acknowledgement, which is read later, inside loop_forever.
MainConnect ==
    /\ AtStmt("connect")
    /\ \E connected \in BOOLEAN :
          IF connected THEN pc' = pc + 1 /\ mainAlive' = TRUE /\ conn' = "pending"
          ELSE pc' = pc /\ mainAlive' = FALSE /\ conn' = "failed"
    /\ UNCHANGED <<subs, published, il, typed, move, console, nRead, el, nIn, lastIn>>
    /\ UNCHANGED interrupted
    /\ UNCHANGED projVars

MainSubscribe ==
    /\ AtStmt("subscribe")
    /\ subs' = Append(subs, Main[pc].topic)
    /\ pc' = pc + 1
    /\ UNCHANGED <<mainAlive, published, il, typed, move, console, nRead, el, nIn, lastIn>>
    /\ UNCHANGED <<conn, interrupted>>
    /\ UNCHANGED projVars

MainPublish ==
    /\ AtStmt("publish")
    /\ Publish("main", Main[pc].topic, Main[pc].payload)
    /\ pc' = pc + 1
    /\ UNCHANGED <<mainAlive, subs, il, typed, move, console, nRead, el, nIn, lastIn>>
    /\ UNCHANGED <<conn, interrupted>>
    /\ UNCHANGED projVars

MainSleep ==
    /\ AtStmt("sleep")
    /\ pc' = pc + 1
    /\ UNCHANGED <<mainAlive, subs, published, il, typed, move, console, nRead, el, nIn, lastIn>>
    /\ UNCHANGED <<conn, interrupted>>
    /\ UNCHANGED projVars

\* Lines 163-164: one thread, running user_input_control for the player named
\* in the statement.
MainStartThread ==
    /\ AtStmt("thread")
    /\ il' = [p \in LocalPlayers |-> IF p = Main[pc].topic[1] THEN "prompt" ELSE il[p]]
    /\ pc' = pc + 1
    /\ UNCHANGED <<mainAlive, subs, published, typed, move, console, nRead, el, nIn, lastIn>>
    /\ UNCHANGED <<conn, interrupted>>
    /\ UNCHANGED projVars

\* Line 166: the main thread enters the event loop and stays in it.
MainLoopForever ==
    /\ AtStmt("loop_forever")
    /\ el = "idle"
    /\ el' = "running"
    /\ pc' = pc + 1
    /\ UNCHANGED <<mainAlive, subs, published, il, typed, move, console, nRead, nIn, lastIn>>
    /\ UNCHANGED <<conn, interrupted>>
    /\ UNCHANGED projVars

(***************************************************************************)
(* user_input_control, lines 70-82: one iteration of the while loop.       *)
(***************************************************************************)
InvalidMove == "Invalid move. Please try again."

\* A mutation of line 78: the break is left out.
AfterStop_NoBreak == "prompt"

\* The break of line 78 ends the loop.
AfterStop == "done"

\* The return code of client.publish, which lines 75 and 77 do not look at:
\* paho sends while it holds a socket and answers MQTT_ERR_NO_CONN once the
\* connection is gone.  It raises nothing.
PublishRc == IF conn \in {"pending", "accepted"} THEN "ok" ELSE "no_conn"

\* A mutation of line 163: the thread is made a daemon, so it ends with the
\* main thread.
ThreadDaemon_True == TRUE

\* threading.Thread(...) of line 163 leaves daemon at its default: the thread
\* outlives the main thread.
ThreadDaemon == FALSE

user_input_control(player, token) ==
    /\ il[player] = "prompt"
    /\ ThreadDaemon => mainAlive
    /\ nRead[player] < MaxTokens
    /\ nRead' = [nRead EXCEPT ![player] = @ + 1]
    /\ typed' = token
    /\ move' = Upper(token)
    /\ IF move' \in BoardMoves
       THEN /\ Publish(player, MoveTopic(lobby_name, player), Text(move'))
            /\ UNCHANGED <<il, console>>
       ELSE IF move' = STOP
       THEN /\ Publish(player, StartTopic(lobby_name), Text(STOP))
            /\ il' = [il EXCEPT ![player] = AfterStop]
            /\ UNCHANGED console
       ELSE /\ console' = Append(console, InvalidMove)
            /\ UNCHANGED <<published, il>>
    /\ UNCHANGED <<pc, mainAlive, subs, el, nIn, lastIn, conn, interrupted>>
    /\ UNCHANGED projVars

InputRead == \E player \in LocalPlayers, token \in Tokens : user_input_control(player, token)

(***************************************************************************)
(* The broker side: which topics reach the client.  Topic segments are     *)
(* non-empty; "+" stands for one segment and "#" for the rest of the topic.*)
(***************************************************************************)
RECURSIVE MatchFrom(_, _, _)
MatchFrom(filter, topic, i) ==
    IF i > Len(filter) THEN i > Len(topic)
    ELSE IF filter[i] = "#" THEN TRUE
    ELSE IF i > Len(topic) THEN FALSE
    ELSE (filter[i] = "+" \/ filter[i] = topic[i]) /\ MatchFrom(filter, topic, i + 1)

TopicMatches(filter, topic) == MatchFrom(filter, topic, 1)

Subscribed(topic) == \E i \in 1..Len(subs) : TopicMatches(subs[i], topic)

\* Topics on which the server or another client may publish.
InboundTopics ==
    { <<"games", lobby_name, "lobby">>,
      <<"games", lobby_name, "scores">>,
      <<"games", lobby_name, player_1, "game_state">>,
      <<"games", lobby_name, player_2, "game_state">>,
      <<"games", lobby_name, "scores", "game_state">>,
      <<"games", lobby_name, "game_state", "game_state">>,
      <<"games", lobby_name, player_1, "extra", "game_state">>,
      <<"games", lobby_name, player_1, "game_state", "extra">>,
      <<"games", lobby_name, player_1, "move">>,
      <<"games", lobby_name, "start">>,
      <<"games", lobby_name, "game_state">>,
      <<"games", "OtherLobby", player_1, "game_state">>,
      <<"games", "OtherLobby", "scores">>,
      <<"new_game">> }

\* msg.payload: bytes that may not be UTF-8, text that may not be JSON, or a
\* JSON document.
Bytes(utf8, json, doc) == [utf8 |-> utf8, json |-> json, doc |-> doc]

InboundPayloads ==
    {Bytes(FALSE, FALSE, NoDoc), Bytes(TRUE, FALSE, NoDoc)}
    \cup {Bytes(TRUE, TRUE, d) : d \in {ScenarioBasic, ScenarioOutOfView, NoDoc, NoKeys, NoPosition}}

(***************************************************************************)
(* on_message, lines 50-67.                                                *)
(***************************************************************************)
\* The needles of lines 61 and 64 that occur in a topic segment as substrings.
NeedlesIn(segment) ==
    CASE segment = "game_state" -> {"game_state"}
      [] segment = "scores" -> {"scores"}
      [] OTHER -> {}

\* needle in msg.topic: a substring test; neither needle holds a "/", so it
\* occurs in the topic exactly when it occurs in one of the segments.
Contains(topic, needle) == \E i \in 1..Len(topic) : needle \in NeedlesIn(topic[i])

Handled(route, raised, projected, output) ==
    [route |-> route, raised |-> raised, projected |-> projected, out |-> output]

on_message(topic, payload) ==
    IF ~payload.utf8 THEN Handled("none", TRUE, FALSE, NoOut)
    ELSE IF Contains(topic, "game_state")
    THEN IF ~payload.json THEN Handled("state", TRUE, FALSE, NoOut)
         ELSE Handled("state", FALSE, TRUE, process_game_state(payload.doc))
    ELSE IF Contains(topic, "scores") THEN Handled("scores", FALSE, FALSE, NoOut)
    ELSE Handled("generic", FALSE, FALSE, NoOut)

NoIn == [topic |-> <<>>, payload |-> Bytes(TRUE, FALSE, NoDoc),
         handled |-> Handled("none", FALSE, FALSE, NoOut)]

\* A mutation of on_message: the callback answers every inbound message with a
\* publish of its own.
Deliver_Publishing ==
    /\ el = "running"
    /\ conn = "accepted"
    /\ nIn < MaxInbound
    /\ \E topic \in {t \in InboundTopics : Subscribed(t)}, payload \in InboundPayloads :
          /\ lastIn' = [topic |-> topic, payload |-> payload,
                        handled |-> on_message(topic, payload)]
          /\ el' = IF lastIn'.handled.raised THEN "dead" ELSE "running"
          /\ mainAlive' = ~lastIn'.handled.raised
    /\ nIn' = nIn + 1
    /\ Publish("main", StartTopic(lobby_name), Text(STOP))
    /\ UNCHANGED <<pc, subs, il, typed, move, console, nRead>>
    /\ UNCHANGED <<conn, interrupted>>
    /\ UNCHANGED projVars

\* One turn of client.loop_forever() (line 166): the broker delivers a message
\* on a subscribed topic and paho calls on_message.  paho re-raises what the
\* callback raises, which ends loop_forever and with it the main thread.
Deliver ==
    /\ el = "running"
    /\ conn = "accepted"
    /\ nIn < MaxInbound
    /\ \E topic \in {t \in InboundTopics : Subscribed(t)}, payload \in InboundPayloads :
          /\ lastIn' = [topic |-> topic, payload |-> payload,
                        handled |-> on_message(topic, payload)]
          /\ el' = IF lastIn'.handled.raised THEN "dead" ELSE "running"
          /\ mainAlive' = ~lastIn'.handled.raised
    /\ nIn' = nIn + 1
    /\ UNCHANGED <<pc, subs, published, il, typed, move, console, nRead>>
    /\ UNCHANGED <<conn, interrupted>>
    /\ UNCHANGED projVars

\* Lines 131-133 register on_subscribe, on_message and on_publish; on_connect
\* (lines 12-21) is never registered, so no callback prints the reason code.
OnConnectRegistered == FALSE

\* Inside loop_forever the broker's connect acknowledgement arrives: the
\* session is accepted, or refused (bad credentials) and the broker closes the
\* connection.
ConnAck ==
    /\ el = "running"
    /\ conn = "pending"
    /\ \E verdict \in {"accepted", "refused"} : conn' = verdict
    /\ UNCHANGED <<pc, mainAlive, subs, published, il, typed, move, console, nRead,
                   el, nIn, lastIn, interrupted>>
    /\ UNCHANGED projVars

\* The connection drops after it was accepted.  loop_forever keeps running
\* (paho waits and retries); nothing is delivered meanwhile.
Disconnect ==
    /\ el = "running"
    /\ conn = "accepted"
    /\ conn' = "lost"
    /\ UNCHANGED <<pc, mainAlive, subs, published, il, typed, move, console, nRead,
                   el, nIn, lastIn, interrupted>>
    /\ UNCHANGED projVars

\* Ctrl-C while the main thread runs.  Python raises KeyboardInterrupt in the
\* main thread only: the main program, or loop_forever, ends with a traceback.
\* The input thread, blocked in input(), is not woken: the except clause of
\* line 81 never runs there.
Interrupt ==
    /\ mainAlive
    /\ ~interrupted
    /\ interrupted' = TRUE
    /\ mainAlive' = FALSE
    /\ el' = IF el = "running" THEN "dead" ELSE el
    /\ UNCHANGED <<pc, subs, published, il, typed, move, console, nRead, nIn, lastIn, conn>>
    /\ UNCHANGED projVars

(***************************************************************************)
(* The projection harness: process_game_state applied to one snapshot.     *)
(***************************************************************************)
Render ==
    /\ ~rendered
    /\ out' = process_game_state(snapshot)
    /\ rendered' = TRUE
    /\ UNCHANGED <<snapshot, renders>>
    /\ UNCHANGED sessionVars

\* The snapshots of a sequence of game_state messages: in view, out of view,
\* wrapping round the grid, colliding, empty and malformed.
SeqSnapshots ==
    { ScenarioBasic,
      ScenarioOutOfView,
      GameState(<<3, 3>>, <<>>, <<>>),
      GameState(<<3, 3>>, << <<1, 1>>, <<5, 5>> >>, << <<5, 5>> >>),
      GameState(<<0, 0>>, << <<1, 1>> >>, << <<2, 2>>, <<0, 1>> >>),
      GameState(<<3, 3>>, << <<0, 0>> >>, << <<9, 9>> >>),
      NoKeys,
      NoPosition }

\* A mutation of process_game_state: the grid is kept between calls, so the
\* marks of the previous call stay where the new call writes nothing.
RenderNext_GridKept ==
    /\ Len(renders) < MaxRenders
    /\ \E s \in SeqSnapshots :
          /\ snapshot' = s
          /\ out' = [printed |-> process_game_state(s).printed,
                     grid |-> [r \in 0..(N - 1) |-> [c \in 0..(N - 1) |->
                                 IF process_game_state(s).grid[r][c] = " "
                                 THEN out.grid[r][c]
                                 ELSE process_game_state(s).grid[r][c]]]]
    /\ rendered' = TRUE
    /\ renders' = Append(renders, [snapshot |-> snapshot', out |-> out'])
    /\ UNCHANGED sessionVars

\* The next game_state message of a sequence reaches process_game_state
\* (line 63); the grid it fills is the fresh local of line 87.
RenderNext ==
    /\ Len(renders) < MaxRenders
    /\ \E s \in SeqSnapshots :
          /\ snapshot' = s
          /\ out' = process_game_state(s)
    /\ rendered' = TRUE
    /\ renders' = Append(renders, [snapshot |-> snapshot', out |-> out'])
    /\ UNCHANGED sessionVars

(***************************************************************************)
(* Specifications.                                                         *)
(***************************************************************************)
InitSession ==
    /\ pc = 1
    /\ mainAlive = TRUE
    /\ subs = <<>>
    /\ published = <<>>
    /\ il = [p \in LocalPlayers |-> "idle"]
    /\ typed = <<>>
    /\ move = <<>>
    /\ console = <<>>
    /\ nRead = [p \in LocalPlayers |-> 0]
    /\ el = "idle"
    /\ nIn = 0
    /\ lastIn = NoIn
    /\ conn = "none"
    /\ interrupted = FALSE

Init ==
    /\ InitSession
    /\ snapshot = ScenarioBasic
    /\ out = NoOut
    /\ rendered = FALSE
    /\ renders = <<>>

Next ==
    \/ MainConnect
    \/ MainSubscribe
    \/ MainPublish
    \/ MainSleep
    \/ MainStartThread
    \/ MainLoopForever
    \/ InputRead
    \/ Deliver
    \/ ConnAck
    \/ Disconnect
    \/ Interrupt

Spec == Init /\ [][Next]_vars

InitProj ==
    /\ InitSession
    /\ snapshot \in Snapshots(MaxCoord, MaxPos)
    /\ out = NoOut
    /\ rendered = FALSE
    /\ renders = <<>>

NextProj == Render

SpecProj == InitProj /\ [][NextProj]_vars

\* A sequence of game_state messages projected one after another.
NextSeq == RenderNext

SpecSeq == Init /\ [][NextSeq]_vars

(***************************************************************************)
(* Vocabulary of the properties.                                           *)
(***************************************************************************)
IsJoin(m, player) ==
    /\ m.topic = NewGameTopic
    /\ m.payload.fmt = "json"
    /\ m.payload.obj.lobby_name = lobby_name
    /\ m.payload.obj.player_name = player

IsStart(m) == m.topic = StartTopic(lobby_name) /\ m.payload = Text(START)

IsStop(m) == m.topic = StartTopic(lobby_name) /\ m.payload = Text(STOP)

IsMove(m) == Len(m.topic) = 4 /\ m.topic[1] = "games" /\ m.topic[4] = "move"

Sent == 1..Len(published)

CountBy(who, log) == Cardinality({i \in 1..Len(log) : log[i].by = who})

\* Case-insensitive equality of two strings, by folding to lower case.
LowerChar(c) ==
    IF \E i \in 1..Len(UpperCase) : UpperCase[i] = c
    THEN LowerCase[CHOOSE i \in 1..Len(UpperCase) : UpperCase[i] = c]
    ELSE c

EqualIgnoringCase(a, b) ==
    Len(a) = Len(b) /\ \A i \in 1..Len(a) : LowerChar(a[i]) = LowerChar(b[i])

IsMoveToken(token) == \E m \in BoardMoves \cup {STOP} : EqualIgnoringCase(token, m)

\* The projected cell of an entity and whether it lies in the view.
Projected(s, e) == <<e[1] - s.pos[1] + 2, e[2] - s.pos[2] + 2>>

InView(s, e) ==
    /\ 0 <= Projected(s, e)[1] /\ Projected(s, e)[1] < 5
    /\ 0 <= Projected(s, e)[2] /\ Projected(s, e)[2] < 5

Entities(s) == {s.coins[i] : i \in 1..Len(s.coins)} \cup {s.walls[i] : i \in 1..Len(s.walls)}

IsStateTopic(t) ==
    Len(t) = 4 /\ t[1] = "games" /\ t[2] = lobby_name /\ t[4] = "game_state"

\* The body of an inbound message is text that is not a GameState: not JSON
\* at all, or JSON of another shape.
MalformedBody(payload) == payload.utf8 /\ (~payload.json \/ ~ValidShape(payload.doc))

\* The operator sees a report: the projector's error line, or the traceback of
\* an exception nothing caught.
Reported(h) == h.raised \/ h.out.printed = "error"

(***************************************************************************)
(* C1.  A game_state message whose body is not JSON, or is JSON without    *)
(* the GameState keys and shape, is reported and dropped, and the event    *)
(* loop stays alive to handle the messages that follow.                    *)
(***************************************************************************)
C1_MalformedStateRecovered ==
    (nIn > 0 /\ IsStateTopic(lastIn.topic) /\ MalformedBody(lastIn.payload))
        => /\ Reported(lastIn.handled)
           /\ lastIn.handled.out.printed # "grid"
           /\ el = "running"

(***************************************************************************)
(* C2.  After a render of a well-shaped GameState, a cell of the grid      *)
(* carries a coin or wall marker if and only if some coin or wall projects *)
(* to that cell with both projected coordinates in [0,5).                  *)
(***************************************************************************)
C2_MarkedIffInView ==
    (rendered /\ ValidShape(snapshot))
        => \A r \in 0..4, c \in 0..4 :
              (out.printed = "grid" /\ out.grid[r][c] \in {"C", "W"})
                  <=> (\E e \in Entities(snapshot) : Projected(snapshot, e) = <<r, c>>)

(***************************************************************************)
(* C3.  A well-shaped GameState with an entity out of view still renders:  *)
(* the grid is printed with every in-view entity and no error is reported. *)
(***************************************************************************)
C3_OutOfViewOmitted ==
    (/\ rendered /\ ValidShape(snapshot)
     /\ \E e \in Entities(snapshot) : ~InView(snapshot, e))
        => /\ out.printed = "grid"
           /\ \A e \in Entities(snapshot) :
                 InView(snapshot, e)
                     => out.grid[Projected(snapshot, e)[1]][Projected(snapshot, e)[2]]
                            \in {"C", "W"}

(***************************************************************************)
(* C4.  In every rendered grid the cell (2,2) holds the player marker,     *)
(* also when a coin or wall sits on the player's own position.             *)
(***************************************************************************)
C4_PlayerAtCenter ==
    (rendered /\ ValidShape(snapshot) /\ out.printed = "grid") => out.grid[2][2] = "P"

(***************************************************************************)
(* C5.  A move is published only while the session is Active: after a      *)
(* START and before any STOP on games/{lobby}/start.                       *)
(***************************************************************************)
C5_MovesOnlyWhileActive ==
    \A i \in Sent :
        IsMove(published[i])
            => /\ \E j \in 1..(i - 1) : IsStart(published[j])
               /\ ~\E j \in 1..(i - 1) : IsStop(published[j])

(***************************************************************************)
(* C6.  Exactly one join message per local player is published on          *)
(* new_game, with the session's lobby name and that player's name, and all *)
(* of them precede the START and every STOP control message.               *)
(***************************************************************************)
C6_JoinsBeforeStart ==
    /\ \A p \in LocalPlayers :
          Cardinality({i \in Sent : IsJoin(published[i], p)}) <= 1
    /\ \A i \in Sent :
          published[i].topic = NewGameTopic
              => \E p \in LocalPlayers : IsJoin(published[i], p)
    /\ \A i \in Sent :
          (IsStart(published[i]) \/ IsStop(published[i]))
              => \A p \in LocalPlayers : \E j \in 1..(i - 1) : IsJoin(published[j], p)
    /\ el # "idle"
          => \A p \in LocalPlayers :
                Cardinality({i \in Sent : IsJoin(published[i], p)}) = 1

C6_Witness ==
    /\ el = "running"
    /\ \E i \in Sent : IsStart(published[i])
    /\ \E i \in Sent : IsStop(published[i])
    /\ \A p \in LocalPlayers : \E i \in Sent : IsJoin(published[i], p)

(***************************************************************************)
(* C7.  Each token the input loop reads is accepted exactly when it equals *)
(* UP, DOWN, LEFT, RIGHT or STOP ignoring case; an accepted token is       *)
(* published, any other token publishes nothing, prints the invalid-move   *)
(* line and leaves the loop at its prompt.                                 *)
(***************************************************************************)
C7_MoveValidation ==
    [][\A p \in LocalPlayers :
          nRead'[p] = nRead[p] + 1
              => IF IsMoveToken(typed')
                 THEN /\ Len(published') = Len(published) + 1
                      /\ published'[Len(published')].by = p
                      /\ console' = console
                 ELSE /\ published' = published
                      /\ console' = Append(console, InvalidMove)
                      /\ il'[p] = "prompt"]_vars

\* An invalid token was rejected, and the loop went on to read a lower-case
\* token and published it.
C7_Witness ==
    /\ console = <<InvalidMove>>
    /\ nRead[player_1] = 2
    /\ typed = <<"u", "p">>
    /\ published[Len(published)] =
           [by |-> player_1, topic |-> MoveTopic(lobby_name, player_1), payload |-> Text(UP)]

(***************************************************************************)
(* C8.  Reading STOP publishes one "STOP" on games/{lobby}/start and ends  *)
(* the input loop; a loop that has ended stays ended, reads no further     *)
(* token and publishes nothing more.                                       *)
(***************************************************************************)
C8_StopEndsLoop ==
    [][\A p \in LocalPlayers :
          /\ (nRead'[p] = nRead[p] + 1 /\ move' = STOP)
                => /\ published' = Append(published,
                          [by |-> p, topic |-> StartTopic(lobby_name), payload |-> Text(STOP)])
                   /\ il'[p] = "done"
          /\ il[p] = "done"
                => /\ il'[p] = "done"
                   /\ nRead'[p] = nRead[p]
                   /\ CountBy(p, published') = CountBy(p, published)]_vars

\* The loop ended on its first token, with tokens still to come.
C8_Witness ==
    /\ il[player_1] = "done"
    /\ nRead[player_1] = 1
    /\ nRead[player_1] < MaxTokens
    /\ IsStop(published[Len(published)])
    /\ published[Len(published)].by = player_1

(***************************************************************************)
(* C9.  Routing of inbound topics: a message on games/{lobby}/lobby takes  *)
(* the generic display path only, a message on                             *)
(* games/{lobby}/{player}/game_state takes the state-projection path, and  *)
(* no topic of another shape, such as one with an extra segment, is handed *)
(* to the state-projection path.                                           *)
(***************************************************************************)
C9_TopicRouting ==
    nIn > 0
        => /\ lastIn.topic = <<"games", lobby_name, "lobby">>
                 => /\ lastIn.handled.route \in {"generic", "none"}
                    /\ lastIn.payload.utf8 => lastIn.handled.route = "generic"
           /\ IsStateTopic(lastIn.topic)
                 => /\ lastIn.payload.utf8 => lastIn.handled.route = "state"
                    /\ (lastIn.payload.utf8 /\ lastIn.payload.json) => lastIn.handled.projected
           /\ (lastIn.handled.route = "state" \/ lastIn.handled.projected)
                 => IsStateTopic(lastIn.topic)

C9_Witness ==
    /\ nIn > 0
    /\ lastIn.topic = <<"games", lobby_name, player_2, "game_state">>
    /\ lastIn.handled.projected
    /\ lastIn.handled.out.printed = "grid"

(***************************************************************************)
(* C10.  Once startup is over, every player for whom a join message was    *)
(* published has an input loop of its own.                                 *)
(***************************************************************************)
C10_LoopPerPlayer ==
    el # "idle"
        => \A p \in LocalPlayers :
              (\E i \in Sent : IsJoin(published[i], p)) => il[p] # "idle"

(***************************************************************************)
(* C11.  When the connect fails, by an exception of client.connect or by a *)
(* refusal in the broker's connect acknowledgement, the failure is shown   *)
(* to the operator and nothing follows: no subscribe, no publish, no input *)
(* loop.                                                                   *)
(***************************************************************************)
ConnectFailureShown ==
    \/ conn = "failed" /\ ~mainAlive
    \/ conn = "refused" /\ OnConnectRegistered

C11_ConnectFailureStops ==
    conn \in {"failed", "refused"}
        => /\ ConnectFailureShown
           /\ subs = <<>>
           /\ published = <<>>
           /\ \A p \in LocalPlayers : il[p] = "idle"

(***************************************************************************)
(* C12.  A publish of the input loop that fails produces a line for the    *)
(* operator, and the loop goes on to the next token unless the token was   *)
(* STOP.                                                                   *)
(***************************************************************************)
C12_PublishFailureShown ==
    [][\A p \in LocalPlayers :
          (/\ nRead'[p] = nRead[p] + 1
           /\ CountBy(p, published') = CountBy(p, published) + 1
           /\ PublishRc # "ok")
              => /\ Len(console') = Len(console) + 1
                 /\ console'[Len(console')] # InvalidMove
                 /\ move' # STOP => il'[p] = "prompt"]_vars

(***************************************************************************)
(* C13.  The end of one loop does not end the other.  The step that ends   *)
(* the input loop leaves the event loop as it was, and while the event     *)
(* loop runs on an accepted connection it can still deliver; the step that *)
(* ends the event loop leaves the input loop as it was, and a loop waiting *)
(* at its prompt can still read a token after the event loop is gone.      *)
(***************************************************************************)
C13_StillWorking ==
    /\ \A p \in LocalPlayers :
          (el = "dead" /\ il[p] = "prompt" /\ nRead[p] < MaxTokens)
              => ENABLED user_input_control(p, UP)
    /\ ((\E p \in LocalPlayers : il[p] = "done")
            /\ el = "running" /\ conn = "accepted" /\ nIn < MaxInbound)
          => ENABLED Deliver

C13_LoopsIndependent ==
    /\ []C13_StillWorking
    /\ [][/\ (\E p \in LocalPlayers : il[p] = "prompt" /\ il'[p] = "done")
                => (el' = el /\ mainAlive' = mainAlive /\ conn' = conn /\ nIn' = nIn)
          /\ (el = "running" /\ el' = "dead")
                => (il' = il /\ nRead' = nRead /\ published' = published)]_vars

\* The input loop has ended on STOP while the event loop, having delivered a
\* message, is still running and able to deliver more.
C13_Witness ==
    /\ il[player_1] = "done"
    /\ el = "running"
    /\ conn = "accepted"
    /\ nIn >= 1
    /\ nIn < MaxInbound

(***************************************************************************)
(* C15.  An interrupt that arrives while the input loop waits at its       *)
(* prompt ends that loop and publishes nothing: the interrupt step leaves  *)
(* the published messages as they were and takes every waiting loop to its *)
(* end.                                                                    *)
(***************************************************************************)
C15_InterruptEndsLoop ==
    [][(interrupted' /\ ~interrupted)
          => /\ published' = published
             /\ \A p \in LocalPlayers : il[p] = "prompt" => il'[p] = "done"]_vars

(***************************************************************************)
(* C16.  For a GameState whose coins and walls are all in view and none at *)
(* the player's position, the printed grid is the reference projection:    *)
(* the player at (2,2), a wall at the projected cell of every wall, a coin *)
(* at the projected cell of every coin that no wall covers, and every      *)
(* other cell empty.                                                       *)
(***************************************************************************)
WallAt(s, r, c) == \E i \in 1..Len(s.walls) : Projected(s, s.walls[i]) = <<r, c>>

CoinAt(s, r, c) == \E i \in 1..Len(s.coins) : Projected(s, s.coins[i]) = <<r, c>>

ReferenceProjection(s) ==
    [r \in 0..4 |-> [c \in 0..4 |->
        IF r = 2 /\ c = 2 THEN "P"
        ELSE IF WallAt(s, r, c) THEN "W"
        ELSE IF CoinAt(s, r, c) THEN "C"
        ELSE " "]]

AllInViewOffPlayer(s) ==
    \A e \in Entities(s) : InView(s, e) /\ Projected(s, e) # <<2, 2>>

C16_ReferenceProjection ==
    (rendered /\ ValidShape(snapshot) /\ AllInViewOffPlayer(snapshot))
        => /\ out.printed = "grid"
           /\ out.grid = ReferenceProjection(snapshot)

\* A coin and a wall on the same in-view cell: the grid shows the wall.
C16_Witness ==
    /\ rendered
    /\ ValidShape(snapshot)
    /\ AllInViewOffPlayer(snapshot)
    /\ Len(snapshot.coins) = 1
    /\ snapshot.walls = snapshot.coins
    /\ out.printed = "grid"
    /\ out.grid[Projected(snapshot, snapshot.coins[1])[1]]
               [Projected(snapshot, snapshot.coins[1])[2]] = "W"

(***************************************************************************)
(* C17.  Every message an input loop publishes is a board move on          *)
(* games/{lobby}/{player}/move of its own player whose payload is UP,      *)
(* DOWN, LEFT or RIGHT, or it is "STOP" on games/{lobby}/start, which a    *)
(* loop publishes at most once.  A step that reads a token appends exactly *)
(* the one message that token calls for, the board move being the token in *)
(* upper case; no other step publishes for the loop.  The loop never       *)
(* publishes on new_game and never publishes "START".                      *)
(***************************************************************************)
OwnBoardMove(p, m) ==
    /\ m.by = p
    /\ m.topic = <<"games", lobby_name, p, "move">>
    /\ m.payload.fmt = "text"
    /\ m.payload.text \in BoardMoves

OwnStop(p, m) ==
    /\ m.by = p
    /\ m.topic = <<"games", lobby_name, "start">>
    /\ m.payload = Text(STOP)

C17_InputLoopMessages ==
    \A p \in LocalPlayers :
        /\ \A i \in Sent :
              published[i].by = p
                  => OwnBoardMove(p, published[i]) \/ OwnStop(p, published[i])
        /\ Cardinality({i \in Sent : OwnStop(p, published[i])}) <= 1

C17_InputLoopPublishes ==
    /\ []C17_InputLoopMessages
    /\ [][\A p \in LocalPlayers :
             IF nRead'[p] = nRead[p] + 1
             THEN IF \E m \in BoardMoves : EqualIgnoringCase(typed', m)
                  THEN /\ Len(published') = Len(published) + 1
                       /\ SubSeq(published', 1, Len(published)) = published
                       /\ OwnBoardMove(p, published'[Len(published')])
                       /\ EqualIgnoringCase(typed', published'[Len(published')].payload.text)
                  ELSE IF EqualIgnoringCase(typed', STOP)
                  THEN /\ Len(published') = Len(published) + 1
                       /\ SubSeq(published', 1, Len(published)) = published
                       /\ OwnStop(p, published'[Len(published')])
                  ELSE published' = published
             ELSE CountBy(p, published') = CountBy(p, published)]_vars

\* The loop has published a board move and then its STOP.
C17_Witness ==
    /\ nRead[player_1] = 2
    /\ CountBy(player_1, published) = 2
    /\ published[Len(published) - 1] =
           [by |-> player_1, topic |-> <<"games", lobby_name, player_1, "move">>,
            payload |-> Text(DOWN)]
    /\ published[Len(published)] =
           [by |-> player_1, topic |-> <<"games", lobby_name, "start">>,
            payload |-> Text(STOP)]

(***************************************************************************)
(* C18.  Handling an inbound message publishes nothing and leaves the      *)
(* input loop's state (its position, its counters, the token and move it   *)
(* holds, its console lines) as it was; and whatever has been delivered,   *)
(* a loop waiting at its prompt can read its next token.  Together with    *)
(* C17, which fixes the message a token produces from the token alone, the *)
(* messages the loop publishes do not depend on the deliveries.            *)
(***************************************************************************)
C18_PromptReads ==
    \A p \in LocalPlayers :
        (il[p] = "prompt" /\ nRead[p] < MaxTokens)
            => \A token \in Tokens : ENABLED user_input_control(p, token)

C18_InboundLeavesInputLoop ==
    /\ []C18_PromptReads
    /\ [][(nIn' # nIn \/ lastIn' # lastIn)
             => /\ published' = published
                /\ il' = il
                /\ nRead' = nRead
                /\ typed' = typed
                /\ move' = move
                /\ console' = console]_vars

\* A game_state message has been projected and the input loop has read a
\* token and published it.
C18_Witness ==
    /\ nIn >= 1
    /\ lastIn.handled.projected
    /\ nRead[player_1] >= 1
    /\ CountBy(player_1, published) >= 1

(***************************************************************************)
(* C19.  As stated: at startup the session connects and sends the join     *)
(* requests, and only then registers its subscriptions, so whenever a      *)
(* subscription is registered the connect call has been made and all three *)
(* join requests have been published.                                      *)
(***************************************************************************)
C19_JoinsBeforeSubscriptions ==
    subs # <<>>
        => /\ conn # "none"
           /\ \A p \in LocalPlayers : \E i \in Sent : IsJoin(published[i], p)

(***************************************************************************)
(* C19, amended.  At startup the session connects, then registers the      *)
(* subscriptions for games/{lobby}/lobby, games/{lobby}/+/game_state and   *)
(* games/{lobby}/scores, and only then sends the join requests: whenever a *)
(* subscription is registered the connect call has been made, and whenever *)
(* anything has been published all three subscriptions are registered.     *)
(***************************************************************************)
C19_SubscriptionsBeforeJoins ==
    /\ subs # <<>> => conn # "none"
    /\ published # <<>>
          => subs = << <<"games", lobby_name, "lobby">>,
                       <<"games", lobby_name, "+", "game_state">>,
                       <<"games", lobby_name, "scores">> >>

\* The three subscriptions are registered and the three joins, nothing else,
\* have been published.
C19_Witness ==
    /\ Len(subs) = 3
    /\ Len(published) = 3
    /\ \A p \in LocalPlayers : \E i \in Sent : IsJoin(published[i], p)

(***************************************************************************)
(* C14.  Projection keeps nothing between messages.  In any sequence of    *)
(* projected snapshots, two calls with the same snapshot print the same,   *)
(* whatever was projected between them, and every coin or wall mark of a   *)
(* printed grid stands where an entity of that call's own snapshot lands   *)
(* (counting the rows and columns modulo 5, as the list indexing does).    *)
(***************************************************************************)
OwnMark(s, r, c) ==
    \E e \in Entities(s) :
        /\ (Projected(s, e)[1] - r) % 5 = 0
        /\ (Projected(s, e)[2] - c) % 5 = 0

====
